---- MODULE Spec2Model ----
(***************************************************************************)
(* A model of the paginated crawler: the record validator and the          *)
(* deduplication ledger (src/utils/data_utils.py), the page processor and   *)
(* the no-results check (src/utils/scraper_utils.py) and the venue crawl    *)
(* loop (src/main.py).                                                      *)
(*                                                                         *)
(* Code between two awaits runs without interleaving (one asyncio task),   *)
(* so an action is the code from one await's return to the next await.     *)
(***************************************************************************)
EXTENDS Integers, Sequences, FiniteSets, TLC

(***************************************************************************)
(* Python values, as <<type, payload>>.  A dict is a function whose domain *)
(* is the set of its keys.                                                  *)
(***************************************************************************)
Str(s) == <<"str", s>>
PyNone == <<"none", "">>
PyFalse == <<"bool", "False">>
PyTrue == <<"bool", "True">>

\* bool(v) of Python: "" , None and False are falsy.
Truthy(v) ==
    CASE v[1] = "str" -> v[2] # ""
      [] v[1] = "none" -> FALSE
      [] v[1] = "bool" -> v[2] = "True"

EmptyDict == [k \in {} |-> PyNone]
\* d.pop(key, None): the dict without the key.
DictPop(d, key) == [k \in DOMAIN d \ {key} |-> d[k]]
\* The dict d with d[key] = v.
DictSet(d, key, v) == [k \in DOMAIN d \cup {key} |-> IF k = key THEN v ELSE d[k]]

(***************************************************************************)
(* data_utils.py                                                           *)
(***************************************************************************)
\* A ledger that never reports a name as seen.
never_duplicate(product_name, names) == FALSE

is_duplicate_product(product_name, names) == product_name \in names

\* all(key in product and product[key] for key in required_keys), from the
\* i-th key on: all() stops at the first falsy element.
RECURSIVE is_complete_from(_, _, _)
is_complete_from(product, required_keys_, i) ==
    IF i > Len(required_keys_) THEN TRUE
    ELSE IF ~(required_keys_[i] \in DOMAIN product /\ Truthy(product[required_keys_[i]]))
         THEN FALSE
         ELSE is_complete_from(product, required_keys_, i + 1)

\* all(key in product for key in required_keys): the truth of the value is
\* not looked at.
is_complete_keys_only(product, required_keys_) ==
    \A x \in DOMAIN required_keys_ : required_keys_[x] \in DOMAIN product

is_complete_product(product, required_keys_) ==
    is_complete_from(product, required_keys_, 1)

(***************************************************************************)
(* Bounds and the inputs the environment draws from                        *)
(***************************************************************************)
\* Candidate records on one page, at most.
MaxCands == 3
\* Calls of fetch_and_process_page one caller makes, at most.
MaxCalls == 2

\* Venue records on one page of main()'s crawl, at most.
MaxVenues == 2
\* The last page main() is let to fetch.
MaxMainPages == 3

\* Keys in a required_keys list given to is_complete_product alone, at most.
MaxKeys == 2

\* The last page the crawl loop is let to process.
MaxCrawlPages == 4

\* A dict from a sequence of <<key, value>> pairs.
RECURSIVE DictOf(_)
DictOf(pairs) ==
    IF pairs = <<>> THEN EmptyDict
    ELSE DictSet(DictOf(Tail(pairs)), Head(pairs)[1], Head(pairs)[2])

\* The candidate records the extractor can produce for a product page.
ProductUniverse ==
    { DictOf(<<<<"name", Str("A")>>, <<"price", Str("p")>>>>),
      DictOf(<<<<"name", Str("A")>>, <<"price", Str("q")>>>>),
      DictOf(<<<<"name", Str("B")>>, <<"price", Str("p")>>, <<"error", PyFalse>>>>),
      DictOf(<<<<"name", Str("B")>>, <<"price", Str("q")>>, <<"error", PyTrue>>>>),
      DictOf(<<<<"name", Str("A")>>, <<"price", Str("")>>>>),
      DictOf(<<<<"price", Str("p")>>>>) }

\* The required_keys arguments a caller passes.
RequiredKeyLists == { <<"name", "price">>, <<"price">> }

BaseUrls == { "https://example.test/list" }

\* Sequences over S of length at most n.
SeqUpTo(S, n) == UNION { [1..k -> S] : k \in 0..n }

(***************************************************************************)
(* crawl4ai's CrawlResult, as far as the code reads it.  cleaned_html is a *)
(* sequence of words; extracted_content is None/"" ("empty"), a JSON text  *)
(* of a list of objects ("json") or a text json.loads rejects              *)
(* ("malformed").                                                           *)
(***************************************************************************)
NoResultsMarker == <<"No", "Results", "Found">>

Htmls ==
    { <<"Products">>,
      <<"No", "Results", "Found">>,
      <<"Sorry", "No", "Results", "Found", "today">>,
      <<"No", "Results">>,
      <<"Found", "No", "Results">> }

\* needle in haystack, of Python strings: a contiguous occurrence.
Contains(needle, haystack) ==
    \E i \in 1..(Len(haystack) - Len(needle) + 1) :
        SubSeq(haystack, i, i + Len(needle) - 1) = needle

NoContent == [kind |-> "empty", data |-> <<>>]
Malformed == [kind |-> "malformed", data |-> <<>>]
JsonList(data) == [kind |-> "json", data |-> data]

ContentTruthy(content) == content.kind # "empty"

\* json.loads: the parsed list, or a JSONDecodeError.
json_loads(content) ==
    IF content.kind = "json" THEN [ok |-> TRUE, value |-> content.data]
    ELSE [ok |-> FALSE, value |-> <<>>]

PlainResults ==
    [success : BOOLEAN, cleaned_html : Htmls]

ExtractionResults(U) ==
    [success : {TRUE},
     extracted_content : {NoContent, Malformed} \cup { JsonList(d) : d \in SeqUpTo(U, MaxCands) }]
    \cup
    [success : {FALSE},
     extracted_content : {NoContent} \cup { JsonList(d) : d \in SeqUpTo(U, 1) }]

(***************************************************************************)
(* State                                                                   *)
(***************************************************************************)
VARIABLES
    \* fetch_and_process_page (scraper_utils.py) and its caller
    seen_names,       \* the set the caller shares between the calls
    required_keys,    \* the required_keys argument
    f_pc,             \* "idle", "check_no_results", "extract", "returned", "raised"
    page_number,      \* the page_number argument of the call
    url,              \* the url local
    fetches,          \* the crawler.arun requests of this call, in order
    no_results,       \* the no_results local
    candidates,       \* the list json.loads returned, as parsed
    extracted_data,   \* the extracted_data local (its dicts are changed in place)
    ret,              \* the tuple the call returned
    calls,            \* calls made so far
    returned_all,     \* history: the products of every returned call, in order
    first_seen        \* history: per name, the first complete candidate met

page_vars ==
    <<seen_names, required_keys, f_pc, page_number, url, fetches, no_results,
      candidates, extracted_data, ret, calls, returned_all, first_seen>>

VARIABLES
    \* main() (main.py)
    m_pc,             \* "fetch", "sleep", "save", "done", "raised"
    m_page_number,    \* page_number
    all_venues,       \* all_venues
    m_requests,       \* the urls main() passed to crawler.arun, in order
    m_printed,        \* the message printed when the loop was left
    saves,            \* the row lists written to complete_venues.csv
    m_result          \* result: what the last crawler.arun returned

main_vars ==
    <<m_pc, m_page_number, all_venues, m_requests, m_printed, saves, m_result>>

VARIABLES
    \* one call of is_complete_product (data_utils.py)
    v_pc,             \* "call", "done"
    v_product,        \* the product argument
    v_keys,           \* the required_keys argument
    v_result          \* the value returned

validator_vars == <<v_pc, v_product, v_keys, v_result>>

VARIABLES
    \* the crawl loop that drives fetch_and_process_page (spec.md 4.5)
    c_state,          \* "RUNNING" or a terminal state
    c_page,           \* the current page number
    accumulated,      \* the accumulated sequence of accepted records
    pages_requested,  \* history: the page numbers processed, in order
    scen,             \* history: how many pages of the end-to-end scenario
                      \* the run has matched so far, -1 once it left it
    scen_records      \* history: the candidates of the scenario's pages

crawl_vars == <<c_state, c_page, accumulated, pages_requested, scen, scen_records>>

vars == <<page_vars, main_vars, validator_vars, crawl_vars>>

NoReturn == [products |-> <<>>, stop |-> FALSE]

(***************************************************************************)
(* scraper_utils.py: the loop over extracted_data                          *)
(***************************************************************************)
\* A ledger that keeps only the name added last.
seen_names_keep_last(names, name) == {name}

\* Line 190: seen_names.add(product["name"])
seen_names_add(names, name) == names \cup {name}

\* A removal of 'error' whatever its value.
drop_any_error(product) ==
    IF "error" \in DOMAIN product THEN DictPop(product, "error") ELSE product

\* if product.get("error") is False: product.pop("error", None)
drop_false_error(product) ==
    IF "error" \in DOMAIN product /\ product["error"] = PyFalse
    THEN DictPop(product, "error")
    ELSE product

\* The loop with `break` for `continue` at a duplicate.
RECURSIVE process_products_stop_at_duplicate(_, _, _, _, _)
process_products_stop_at_duplicate(data, i, keys, names, complete_products) ==
    IF i > Len(data)
    THEN [data |-> data, seen |-> names, products |-> complete_products,
          raised |-> FALSE, at |-> i]
    ELSE LET product == drop_false_error(data[i])
             data1 == [data EXCEPT ![i] = product]
         IN  IF ~is_complete_product(product, keys)
             THEN process_products_stop_at_duplicate(data1, i + 1, keys, names,
                                                     complete_products)
             ELSE IF "name" \notin DOMAIN product
             THEN [data |-> data1, seen |-> names, products |-> complete_products,
                   raised |-> TRUE, at |-> i]
             ELSE IF is_duplicate_product(product["name"], names)
             THEN [data |-> data1, seen |-> names, products |-> complete_products,
                   raised |-> FALSE, at |-> i]
             ELSE process_products_stop_at_duplicate(data1, i + 1, keys,
                                   seen_names_add(names, product["name"]),
                                   Append(complete_products, product))

\* The loop with insert(0, product) for append(product).
RECURSIVE process_products_prepend(_, _, _, _, _)
process_products_prepend(data, i, keys, names, complete_products) ==
    IF i > Len(data)
    THEN [data |-> data, seen |-> names, products |-> complete_products,
          raised |-> FALSE, at |-> i]
    ELSE LET product == drop_false_error(data[i])
             data1 == [data EXCEPT ![i] = product]
         IN  IF ~is_complete_product(product, keys)
             THEN process_products_prepend(data1, i + 1, keys, names, complete_products)
             ELSE IF "name" \notin DOMAIN product
             THEN [data |-> data1, seen |-> names, products |-> complete_products,
                   raised |-> TRUE, at |-> i]
             ELSE IF is_duplicate_product(product["name"], names)
             THEN process_products_prepend(data1, i + 1, keys, names, complete_products)
             ELSE process_products_prepend(data1, i + 1, keys,
                                   seen_names_add(names, product["name"]),
                                   <<product>> \o complete_products)

\* The for loop from the i-th product on.  data is extracted_data with the
\* products met so far changed in place; raised tells that product["name"]
\* raised KeyError at index at.
RECURSIVE process_products(_, _, _, _, _)
process_products(data, i, keys, names, complete_products) ==
    IF i > Len(data)
    THEN [data |-> data, seen |-> names, products |-> complete_products,
          raised |-> FALSE, at |-> i]
    ELSE LET product == drop_false_error(data[i])
             data1 == [data EXCEPT ![i] = product]
         IN  IF ~is_complete_product(product, keys)
             THEN process_products(data1, i + 1, keys, names, complete_products)
             ELSE IF "name" \notin DOMAIN product
             THEN [data |-> data1, seen |-> names, products |-> complete_products,
                   raised |-> TRUE, at |-> i]
             ELSE IF is_duplicate_product(product["name"], names)
             THEN process_products(data1, i + 1, keys, names, complete_products)
             ELSE process_products(data1, i + 1, keys,
                                   seen_names_add(names, product["name"]),
                                   Append(complete_products, product))

\* History only: first_seen after the first n products of data were met.
RECURSIVE note_first(_, _, _, _, _)
note_first(fs, data, i, n, keys) ==
    IF i > n THEN fs
    ELSE LET c == data[i]
         IN  IF is_complete_product(c, keys) /\ "name" \in DOMAIN c
                /\ c["name"] \notin DOMAIN fs
             THEN note_first(DictSet(fs, c["name"], c), data, i + 1, n, keys)
             ELSE note_first(fs, data, i + 1, n, keys)

(***************************************************************************)
(* scraper_utils.py: fetch_and_process_page and check_no_results           *)
(***************************************************************************)
\* str(n) of a natural number: its decimal digits, most significant first.
Digits == <<"0", "1", "2", "3", "4", "5", "6", "7", "8", "9">>

RECURSIVE str_int(_)
str_int(n) ==
    IF n < 10 THEN <<Digits[n + 1]>>
    ELSE str_int(n \div 10) \o <<Digits[(n % 10) + 1]>>

\* Line 140 (and main.py line 56): f"{base_url}?page={page_number}", as the
\* pieces of the string.
PageUrl(base_url, n) == <<base_url, "?page=">> \o str_int(n)

PlainFetch(u) == [url |-> u, extraction |-> FALSE]
ExtractionFetch(u) == [url |-> u, extraction |-> TRUE]

\* Lines 140-144 and 92: the call starts and awaits check_no_results' fetch.
StartCall(p, base_url) ==
    /\ page_number' = p
    /\ url' = PageUrl(base_url, p)
    /\ fetches' = <<PlainFetch(PageUrl(base_url, p))>>
    /\ no_results' = FALSE
    /\ candidates' = <<>>
    /\ extracted_data' = <<>>
    /\ ret' = NoReturn
    /\ f_pc' = "check_no_results"

\* check_no_results with == for `in`.
check_no_results_exact(result) ==
    IF result.success
    THEN result.cleaned_html = NoResultsMarker
    ELSE FALSE

\* Lines 101-109: what check_no_results returns for its fetch's result.
check_no_results(result) ==
    IF result.success
    THEN Contains(NoResultsMarker, result.cleaned_html)
    ELSE FALSE

\* Lines 101-109 and 144-157: check_no_results' fetch returns; the call
\* returns ([], True) or awaits the extraction fetch.
CheckNoResultsReturns(result) ==
    /\ f_pc = "check_no_results"
    /\ no_results' = check_no_results(result)
    /\ IF no_results'
       THEN /\ ret' = [products |-> <<>>, stop |-> TRUE]
            /\ f_pc' = "returned"
            /\ UNCHANGED fetches
       ELSE /\ fetches' = Append(fetches, ExtractionFetch(url))
            /\ f_pc' = "extract"
            /\ UNCHANGED ret
    /\ UNCHANGED <<seen_names, required_keys, page_number, url, candidates,
                   extracted_data, calls, returned_all, first_seen>>

\* Lines 159-198: the extraction fetch returns and the page is processed.
\* (Next states the guard once more before it draws the result.)
ExtractionReturns(result) ==
    /\ f_pc = "extract"
    /\ IF ~(result.success /\ ContentTruthy(result.extracted_content))
       THEN /\ ret' = [products |-> <<>>, stop |-> FALSE]
            /\ f_pc' = "returned"
            /\ UNCHANGED <<seen_names, candidates, extracted_data, returned_all,
                           first_seen>>
       ELSE LET parsed == json_loads(result.extracted_content)
            IN  IF ~parsed.ok
                THEN /\ f_pc' = "raised"
                     /\ UNCHANGED <<seen_names, candidates, extracted_data, ret,
                                    returned_all, first_seen>>
                ELSE IF parsed.value = <<>>
                THEN /\ ret' = [products |-> <<>>, stop |-> FALSE]
                     /\ f_pc' = "returned"
                     /\ UNCHANGED <<seen_names, candidates, extracted_data,
                                    returned_all, first_seen>>
                ELSE LET r == process_products(parsed.value, 1, required_keys,
                                               seen_names, <<>>)
                         met == IF r.raised THEN r.at - 1 ELSE Len(r.data)
                     IN  /\ candidates' = parsed.value
                         /\ extracted_data' = r.data
                         /\ seen_names' = r.seen
                         /\ first_seen' = note_first(first_seen, r.data, 1, met,
                                                     required_keys)
                         /\ IF r.raised
                            THEN /\ f_pc' = "raised"
                                 /\ UNCHANGED <<ret, returned_all>>
                            ELSE /\ f_pc' = "returned"
                                 /\ ret' = [products |-> r.products, stop |-> FALSE]
                                 /\ returned_all' = returned_all \o r.products
    /\ UNCHANGED <<required_keys, page_number, url, fetches, no_results, calls>>

(***************************************************************************)
(* Any caller: it calls fetch_and_process_page again and again with the    *)
(* same seen_names, for any page.                                           *)
(***************************************************************************)
Call(p, base_url) ==
    /\ f_pc \in {"idle", "returned", "raised"}
    /\ calls < MaxCalls
    /\ calls' = calls + 1
    /\ StartCall(p, base_url)
    /\ UNCHANGED <<seen_names, required_keys, returned_all, first_seen>>

(***************************************************************************)
(* The crawl loop of spec.md 4.5 around fetch_and_process_page: one call   *)
(* per page with one seen_names, steps a-g.                                 *)
(***************************************************************************)
\* The candidate records of the listing the loop crawls.
CrawlUniverse ==
    { DictOf(<<<<"name", Str("A")>>, <<"price", Str("p")>>>>),
      DictOf(<<<<"name", Str("B")>>, <<"price", Str("p")>>>>),
      DictOf(<<<<"name", Str("C")>>, <<"price", Str("p")>>>>),
      DictOf(<<<<"name", Str("D")>>, <<"price", Str("p")>>>>),
      DictOf(<<<<"name", Str("A")>>, <<"price", Str("")>>>>) }

\* The required fields of the listing's schema.
CrawlRequiredKeys == <<"name", "price">>

\* Steps a, b: the current page is handed to the page processor.
CrawlFetchPage(base_url) ==
    /\ c_state = "RUNNING"
    /\ f_pc = "idle"
    /\ c_page <= MaxCrawlPages
    /\ calls' = calls + 1
    /\ StartCall(c_page, base_url)
    /\ pages_requested' = Append(pages_requested, c_page)
    /\ UNCHANGED <<seen_names, required_keys, returned_all, first_seen>>
    /\ UNCHANGED <<c_state, c_page, accumulated>>

\* Steps c-g: the page processor's answer decides the next state; an error
\* of the page is absorbed as an empty page (spec.md 7).  The call's locals
\* are gone once its answer is taken.
CrawlHandle ==
    /\ c_state = "RUNNING"
    /\ f_pc \in {"returned", "raised"}
    /\ f_pc' = "idle"
    /\ IF f_pc = "raised"
       THEN /\ c_state' = "STOPPED_EMPTY_PAGE"
            /\ UNCHANGED <<c_page, accumulated>>
       ELSE IF ret.stop
       THEN /\ c_state' = "STOPPED_NO_RESULTS"
            /\ UNCHANGED <<c_page, accumulated>>
       ELSE IF ret.products = <<>>
       THEN /\ c_state' = "STOPPED_EMPTY_PAGE"
            /\ UNCHANGED <<c_page, accumulated>>
       ELSE /\ accumulated' = accumulated \o ret.products
            /\ c_page' = c_page + 1
            /\ UNCHANGED c_state
    /\ fetches' = <<>>
    /\ no_results' = FALSE
    /\ candidates' = <<>>
    /\ extracted_data' = <<>>
    /\ ret' = NoReturn
    /\ UNCHANGED <<seen_names, required_keys, page_number, url, calls, returned_all,
                   first_seen>>
    /\ UNCHANGED pages_requested

CrawlInit ==
    /\ c_state = "RUNNING"
    /\ c_page = 1
    /\ accumulated = <<>>
    /\ pages_requested = <<>>
    /\ scen = 0
    /\ scen_records = <<>>

\* No crawl loop.
CrawlIdle ==
    /\ c_state = "off"
    /\ c_page = 0
    /\ accumulated = <<>>
    /\ pages_requested = <<>>
    /\ scen = -1
    /\ scen_records = <<>>

(***************************************************************************)
(* data_utils.py: is_complete_product called on its own                    *)
(***************************************************************************)
ValidatorKeys == {"name", "price", "error"}

ValidatorValues == {Str("A"), Str(""), PyNone, PyFalse, PyTrue}

\* Every dict with keys among ValidatorKeys and values among ValidatorValues.
ValidatorProducts ==
    UNION { [D -> ValidatorValues] : D \in SUBSET ValidatorKeys }

\* The call returns.
Validate ==
    /\ v_pc = "call"
    /\ v_result' = is_complete_product(v_product, v_keys)
    /\ v_pc' = "done"
    /\ UNCHANGED <<v_product, v_keys>>

ValidatorInit ==
    /\ v_pc = "call"
    /\ v_product \in ValidatorProducts
    /\ v_keys \in SeqUpTo(ValidatorKeys, MaxKeys)
    /\ v_result = FALSE

\* No call of is_complete_product on its own.
ValidatorIdle ==
    /\ v_pc = "off"
    /\ v_product = EmptyDict
    /\ v_keys = <<>>
    /\ v_result = FALSE

(***************************************************************************)
(* main.py: main()                                                         *)
(***************************************************************************)
MainBaseUrl == "https://www.theknot.com/marketplace/wedding-reception-venues-atlanta-ga"

\* The key list of lines 79-87.
VenueKeys ==
    <<"name", "price", "location", "capacity", "rating", "reviews", "description">>

\* A venue with every key of VenueKeys, of the given name and price.
Venue(name, price) ==
    [k \in { VenueKeys[x] : x \in DOMAIN VenueKeys } |->
        IF k = "name" THEN name ELSE IF k = "price" THEN price ELSE Str("x")]

\* The candidate records the extractor can produce for a venue page.
VenueUniverse ==
    { Venue(Str("A"), Str("p")),
      DictSet(Venue(Str("A"), Str("")), "error", PyFalse),
      DictPop(Venue(Str("B"), Str("p")), "price") }

\* all(key in venue for key in [...]), from the i-th key on.
RECURSIVE has_keys_from(_, _, _)
has_keys_from(venue, keys, i) ==
    IF i > Len(keys) THEN TRUE
    ELSE IF keys[i] \notin DOMAIN venue THEN FALSE
    ELSE has_keys_from(venue, keys, i + 1)

has_all_keys(venue, keys) == has_keys_from(venue, keys, 1)

\* An emptiness test that never finds the list empty.
no_venues_never(data) == FALSE

\* Line 70: not extracted_data
no_venues(data) == data = <<>>

\* Lines 74-89: the list comprehension, from the i-th venue on.
RECURSIVE complete_venues(_, _)
complete_venues(data, i) ==
    IF i > Len(data) THEN <<>>
    ELSE IF has_all_keys(data[i], VenueKeys)
         THEN <<data[i]>> \o complete_venues(data, i + 1)
         ELSE complete_venues(data, i + 1)

\* A success test that looks at the extracted content only.
fetch_ok_content_only(result) == ContentTruthy(result.extracted_content)

\* Line 68: result.success and result.extracted_content
fetch_ok(result) == result.success /\ ContentTruthy(result.extracted_content)

\* A page increment that skips a page.
next_page_skip(n) == n + 2

\* Line 95: page_number += 1
next_page(n) == n + 1

\* Lines 68-101: crawler.arun returns and the loop body runs to the sleep or
\* to a break.
MainFetchReturns(result) ==
    /\ m_pc = "fetch"
    /\ m_result' = result
    /\ IF fetch_ok(result)
       THEN LET parsed == json_loads(result.extracted_content)
            IN  IF ~parsed.ok
                THEN /\ m_pc' = "raised"
                     /\ UNCHANGED <<m_page_number, all_venues, m_printed>>
                ELSE IF no_venues(parsed.value)
                THEN /\ m_printed' = "No more venues found. Ending crawl."
                     /\ m_pc' = "save"
                     /\ UNCHANGED <<m_page_number, all_venues>>
                ELSE /\ all_venues' = all_venues \o complete_venues(parsed.value, 1)
                     /\ m_page_number' = next_page(m_page_number)
                     /\ m_pc' = "sleep"
                     /\ UNCHANGED m_printed
       ELSE /\ m_printed' = "Error"
            /\ m_pc' = "save"
            /\ UNCHANGED <<m_page_number, all_venues>>
    /\ UNCHANGED <<m_requests, saves>>

\* Lines 98 and 55-66: the sleep ends and the next page is requested.
MainSleepReturns ==
    /\ m_pc = "sleep"
    /\ m_page_number <= MaxMainPages
    /\ m_requests' = Append(m_requests, PageUrl(MainBaseUrl, m_page_number))
    /\ m_pc' = "fetch"
    /\ UNCHANGED <<m_page_number, all_venues, m_printed, saves, m_result>>

\* Lines 103-114: the rows are written when there are any.  The field names
\* are the first row's keys, and DictWriter raises ValueError at a row with
\* a key that is not a field name, the rows before it already written.
MainSave ==
    /\ m_pc = "save"
    /\ IF all_venues = <<>>
       THEN /\ m_pc' = "done"
            /\ UNCHANGED saves
       ELSE LET Bad(i) == ~(DOMAIN all_venues[i] \subseteq DOMAIN all_venues[1])
            IN  IF \E i \in DOMAIN all_venues : Bad(i)
                THEN LET first == CHOOSE i \in DOMAIN all_venues :
                                     Bad(i) /\ \A j \in 1..(i - 1) : ~Bad(j)
                     IN  /\ saves' = Append(saves, SubSeq(all_venues, 1, first - 1))
                         /\ m_pc' = "raised"
                ELSE /\ saves' = Append(saves, all_venues)
                     /\ m_pc' = "done"
    /\ UNCHANGED <<m_page_number, all_venues, m_requests, m_printed, m_result>>

\* The value of `result` before the first arun has returned.
NoResult == [success |-> FALSE, extracted_content |-> NoContent]

MainInit ==
    /\ m_pc = "fetch"
    /\ m_page_number = 1
    /\ all_venues = <<>>
    /\ m_requests = <<PageUrl(MainBaseUrl, 1)>>
    /\ m_printed = ""
    /\ saves = <<>>
    /\ m_result = NoResult

\* main() is not running.
MainIdle ==
    /\ m_pc = "off"
    /\ m_page_number = 0
    /\ all_venues = <<>>
    /\ m_requests = <<>>
    /\ m_printed = ""
    /\ saves = <<>>
    /\ m_result = NoResult

VenueResults ==
    [success : {TRUE},
     extracted_content : {NoContent, Malformed}
                         \cup { JsonList(d) : d \in SeqUpTo(VenueUniverse, MaxVenues) }]
    \cup
    [success : {FALSE},
     extracted_content : {NoContent}
                         \cup { JsonList(d) : d \in SeqUpTo(VenueUniverse, 1) }]

\* No call of fetch_and_process_page is under way.
PageIdle ==
    /\ seen_names = {}
    /\ required_keys = <<>>
    /\ f_pc = "off"
    /\ page_number = 0
    /\ url = <<>>
    /\ fetches = <<>>
    /\ no_results = FALSE
    /\ candidates = <<>>
    /\ extracted_data = <<>>
    /\ ret = NoReturn
    /\ calls = 0
    /\ returned_all = <<>>
    /\ first_seen = EmptyDict

InitMain ==
    /\ MainInit
    /\ PageIdle
    /\ ValidatorIdle
    /\ CrawlIdle

NextMain ==
    \/ /\ m_pc = "fetch"
       /\ \E result \in VenueResults : MainFetchReturns(result)
       /\ UNCHANGED <<page_vars, validator_vars, crawl_vars>>
    \/ /\ MainSleepReturns
       /\ UNCHANGED <<page_vars, validator_vars, crawl_vars>>
    \/ /\ MainSave
       /\ UNCHANGED <<page_vars, validator_vars, crawl_vars>>

SpecMain == InitMain /\ [][NextMain]_vars

PageInit ==
    /\ seen_names = {}
    /\ f_pc = "idle"
    /\ page_number = 0
    /\ url = <<>>
    /\ fetches = <<>>
    /\ no_results = FALSE
    /\ candidates = <<>>
    /\ extracted_data = <<>>
    /\ ret = NoReturn
    /\ calls = 0
    /\ returned_all = <<>>
    /\ first_seen = EmptyDict

Init ==
    /\ PageInit
    /\ required_keys \in RequiredKeyLists
    /\ MainIdle
    /\ ValidatorIdle
    /\ CrawlIdle

Next ==
    \/ /\ \E p \in {page_number, page_number + 1} \ {0}, b \in BaseUrls : Call(p, b)
       /\ UNCHANGED <<main_vars, validator_vars, crawl_vars>>
    \/ /\ f_pc = "check_no_results"
       /\ \E result \in PlainResults : CheckNoResultsReturns(result)
       /\ UNCHANGED <<main_vars, validator_vars, crawl_vars>>
    \/ /\ f_pc = "extract"
       /\ \E result \in ExtractionResults(ProductUniverse) : ExtractionReturns(result)
       /\ UNCHANGED <<main_vars, validator_vars, crawl_vars>>

Spec == Init /\ [][Next]_vars

InitValidator ==
    /\ ValidatorInit
    /\ PageIdle
    /\ MainIdle
    /\ CrawlIdle

NextValidator ==
    /\ Validate
    /\ UNCHANGED <<page_vars, main_vars, crawl_vars>>

SpecValidator == InitValidator /\ [][NextValidator]_vars

(***************************************************************************)
(* The crawl loop's runs, with the history of the end-to-end scenario:     *)
(* pages 1 and 2 each yield two complete records with names not met        *)
(* before, page 3 is fetched with the no-results marker in its text.       *)
(***************************************************************************)
\* The pages whose text holds the marker, listed by hand.
MarkerHtmls ==
    { <<"No", "Results", "Found">>,
      <<"Sorry", "No", "Results", "Found", "today">> }

\* Two candidates, both with every required key and the name non-empty, of
\* two names the ledger does not hold.
ScenarioPage(data) ==
    /\ Len(data) = 2
    /\ \A i \in 1..2 :
          /\ "name" \in DOMAIN data[i]
          /\ \A x \in DOMAIN required_keys :
                /\ required_keys[x] \in DOMAIN data[i]
                /\ data[i][required_keys[x]] \notin {Str(""), PyNone, PyFalse}
          /\ data[i]["name"] \notin seen_names
    /\ data[1]["name"] # data[2]["name"]

ScenarioPlain(result) ==
    /\ scen' = IF scen = 2 /\ page_number = 3
               THEN IF result.success /\ result.cleaned_html \in MarkerHtmls
                    THEN 3 ELSE -1
               ELSE scen
    /\ UNCHANGED scen_records

ScenarioExtraction(result) ==
    IF scen \in {0, 1} /\ page_number = scen + 1 /\ result.success
       /\ result.extracted_content.kind = "json"
       /\ ScenarioPage(result.extracted_content.data)
    THEN /\ scen' = scen + 1
         /\ scen_records' = scen_records \o result.extracted_content.data
    ELSE /\ scen' = -1
         /\ scen_records' = <<>>

InitCrawl ==
    /\ PageInit
    /\ required_keys = CrawlRequiredKeys
    /\ CrawlInit
    /\ MainIdle
    /\ ValidatorIdle

NextCrawl ==
    \/ /\ \E b \in BaseUrls : CrawlFetchPage(b)
       /\ UNCHANGED <<scen, scen_records>>
       /\ UNCHANGED <<main_vars, validator_vars>>
    \/ /\ f_pc = "check_no_results"
       /\ \E result \in PlainResults :
             CheckNoResultsReturns(result) /\ ScenarioPlain(result)
       /\ UNCHANGED <<c_state, c_page, accumulated, pages_requested>>
       /\ UNCHANGED <<main_vars, validator_vars>>
    \/ /\ f_pc = "extract"
       /\ \E result \in ExtractionResults(CrawlUniverse) :
             ExtractionReturns(result) /\ ScenarioExtraction(result)
       /\ UNCHANGED <<c_state, c_page, accumulated, pages_requested>>
       /\ UNCHANGED <<main_vars, validator_vars>>
    \/ /\ CrawlHandle
       /\ UNCHANGED <<scen, scen_records>>
       /\ UNCHANGED <<main_vars, validator_vars>>

SpecCrawl == InitCrawl /\ [][NextCrawl]_vars

(***************************************************************************)
(* Properties of fetch_and_process_page under any caller (Spec)            *)
(***************************************************************************)
Names(products) == { products[k]["name"] : k \in DOMAIN products }

\* seen_names as it was when the returned call started.
SeenBefore == seen_names \ Names(ret.products)

CompleteAt(i) ==
    /\ \A k \in { required_keys[x] : x \in DOMAIN required_keys } :
          k \in DOMAIN extracted_data[i] /\ Truthy(extracted_data[i][k])
    /\ "name" \in DOMAIN extracted_data[i]

\* The i-th candidate of the page is complete and its name was in the ledger
\* when it was met.
DuplicateAt(i) ==
    /\ CompleteAt(i)
    /\ \/ extracted_data[i]["name"] \in SeenBefore
       \/ \E j \in 1..(i - 1) :
             CompleteAt(j) /\ extracted_data[j]["name"] = extracted_data[i]["name"]

\* The positions of data, in order, at which P holds.
RECURSIVE Positions(_, _, _)
Positions(P(_), i, n) ==
    IF i > n THEN <<>>
    ELSE IF P(i) THEN <<i>> \o Positions(P, i + 1, n)
    ELSE Positions(P, i + 1, n)

\* out is data with some elements left out, the order kept.
IsSubsequence(out, data) ==
    \E f \in [1..Len(out) -> 1..Len(data)] :
        /\ \A k \in 1..Len(out) : data[f[k]] = out[k]
        /\ \A k \in 1..(Len(out) - 1) : f[k] < f[k + 1]

ProdA == DictOf(<<<<"name", Str("A")>>, <<"price", Str("p")>>>>)
ProdA2 == DictOf(<<<<"name", Str("A")>>, <<"price", Str("q")>>>>)
ProdB == DictOf(<<<<"name", Str("B")>>, <<"price", Str("p")>>>>)
ProdBFalseError == DictSet(ProdB, "error", PyFalse)
ProdAEmptyPrice == DictOf(<<<<"name", Str("A")>>, <<"price", Str("")>>>>)

\* C1 as stated: no two accepted records of the calls sharing seen_names have
\* the same name, and an accepted record is the first candidate of its page,
\* complete or not, that carries its name.
C1_FirstMetKept ==
    /\ \A i, j \in DOMAIN returned_all :
          i # j => returned_all[i]["name"] # returned_all[j]["name"]
    /\ f_pc = "returned" =>
          \A k \in DOMAIN ret.products :
             \A i \in DOMAIN extracted_data :
                ("name" \in DOMAIN extracted_data[i]
                   /\ extracted_data[i]["name"] = ret.products[k]["name"]
                   /\ \A j \in 1..(i - 1) :
                         "name" \in DOMAIN extracted_data[j] =>
                            extracted_data[j]["name"] # ret.products[k]["name"])
                => extracted_data[i] = ret.products[k]

\* C1, amended: no two accepted records of the calls sharing seen_names have
\* the same name, within a page or across pages, and an accepted record is
\* the first complete candidate with its name in page-then-extraction order.
C1_FirstCompleteKept ==
    /\ \A i, j \in DOMAIN returned_all :
          i # j => returned_all[i]["name"] # returned_all[j]["name"]
    /\ \A i \in DOMAIN returned_all :
          /\ returned_all[i]["name"] \in DOMAIN first_seen
          /\ first_seen[returned_all[i]["name"]] = returned_all[i]

\* C1's case: a name met complete on two pages with different prices, the
\* first one kept.
C1_Witness ==
    /\ calls = 2
    /\ f_pc = "returned"
    /\ returned_all = <<ProdA>>
    /\ extracted_data = <<ProdA2>>

\* C5 as stated: at a complete candidate whose name is already in the ledger
\* the call returns the records accepted so far with the stop flag set.
C5_StopOnDuplicate ==
    (f_pc = "returned" /\ \E i \in DOMAIN extracted_data : DuplicateAt(i))
        => ret.stop = TRUE

\* C6: a complete candidate whose name is in seen_names is skipped and the
\* rest of the page is still processed: the call returns the complete
\* candidates that are no duplicates, and its stop flag is set exactly when
\* the no-results marker was detected; for [A, B, A] and an empty ledger it
\* returns ([A, B], False).
C6_SkipOnDuplicate ==
    f_pc = "returned" =>
        /\ ret.stop = no_results
        /\ LET Kept(i) == CompleteAt(i) /\ ~DuplicateAt(i)
               at == Positions(Kept, 1, Len(extracted_data))
           IN  ret.products = [k \in DOMAIN at |-> extracted_data[at[k]]]
        /\ (candidates = <<ProdA, ProdBFalseError, ProdA>> /\ SeenBefore = {})
              => ret = [products |-> <<ProdA, ProdB>>, stop |-> FALSE]

\* C6's case: a duplicate was skipped and a later candidate accepted.
C6_Witness ==
    /\ f_pc = "returned"
    /\ \E i, j \in DOMAIN extracted_data :
          /\ i < j
          /\ DuplicateAt(i)
          /\ CompleteAt(j) /\ ~DuplicateAt(j)
          /\ extracted_data[j] \in { ret.products[k] : k \in DOMAIN ret.products }

\* C7: the products a call returns are the page's candidates (as the loop
\* left them) with some left out and the order kept; [r1, r2, r3] with r2
\* incomplete and r1, r3 complete and new gives [r1, r3].
C7_OrderPreserved ==
    f_pc = "returned" =>
        /\ IsSubsequence(ret.products, extracted_data)
        /\ \A i, j \in DOMAIN ret.products : i # j => ret.products[i] # ret.products[j]
        /\ (candidates = <<ProdA, ProdAEmptyPrice, ProdBFalseError>> /\ SeenBefore = {})
              => ret.products = <<ProdA, ProdB>>

\* C7's case: the page [r1, r2 incomplete, r3] processed with an empty ledger.
C7_Witness ==
    /\ f_pc = "returned"
    /\ candidates = <<ProdA, ProdAEmptyPrice, ProdBFalseError>>
    /\ SeenBefore = {}
    /\ Len(ret.products) = 2

FetchOrder ==
    /\ \A i \in DOMAIN fetches :
          fetches[i].extraction =>
             /\ i = 2
             /\ fetches[1] = PlainFetch(fetches[i].url)
    /\ no_results =>
          /\ f_pc = "returned"
          /\ ret = [products |-> <<>>, stop |-> TRUE]
          /\ Len(fetches) = 1

\* C8: the fetch of check_no_results comes before the extraction fetch of
\* the page, and when it succeeds with the marker in its text the call
\* returns ([], True), issues no extraction fetch and leaves seen_names as
\* it was.
C8_NoResultsFirst ==
    /\ []FetchOrder
    /\ [][\A result \in PlainResults :
            (CheckNoResultsReturns(result) /\ result.success
               /\ result.cleaned_html \in MarkerHtmls)
            => /\ f_pc' = "returned"
               /\ ret' = [products |-> <<>>, stop |-> TRUE]
               /\ fetches' = fetches
               /\ seen_names' = seen_names]_vars

\* C8's case: the marker was found on a page met after records were accepted.
C8_Witness ==
    /\ no_results
    /\ f_pc = "returned"
    /\ seen_names # {}
    /\ Len(fetches) = 1

(***************************************************************************)
(* Properties of main() (SpecMain)                                         *)
(***************************************************************************)
\* C2 as stated: all_venues never holds two records with the same name, in
\* any state of the crawl and when it is saved.
C2_AccumulatedNamesDistinct ==
    /\ \A i, j \in DOMAIN all_venues :
          i # j => all_venues[i]["name"] # all_venues[j]["name"]
    /\ \A s \in DOMAIN saves : \A i, j \in DOMAIN saves[s] :
          i # j => saves[s][i]["name"] # saves[s][j]["name"]

\* C4 as stated: every record of all_venues has every required field with a
\* truthy value.
C4_AccumulatedComplete ==
    \A i \in DOMAIN all_venues :
       \A x \in DOMAIN VenueKeys :
          /\ VenueKeys[x] \in DOMAIN all_venues[i]
          /\ all_venues[i][VenueKeys[x]] \notin {Str(""), PyNone, PyFalse}

\* The half of C4 about fetch_and_process_page (Spec): every record a call
\* returned has every key of required_keys with a truthy value.
C4_ReturnedComplete ==
    \A i \in DOMAIN returned_all :
       \A x \in DOMAIN required_keys :
          /\ required_keys[x] \in DOMAIN returned_all[i]
          /\ returned_all[i][required_keys[x]] \notin {Str(""), PyNone, PyFalse}

\* The page's extraction gave no candidate: no content or an empty list.
ZeroCandidates(result) ==
    result.extracted_content \in {NoContent, JsonList(<<>>)}

\* C10: when a successfully fetched page yields no candidate record, main()
\* leaves the loop without raising, requests no further page and all_venues
\* is the same sequence after the step as before it.
C10_EmptyPageStops ==
    [][\A result \in VenueResults :
          (MainFetchReturns(result) /\ result.success /\ ZeroCandidates(result))
          => /\ m_pc' = "save"
             /\ all_venues' = all_venues
             /\ m_requests' = m_requests
             /\ m_page_number' = m_page_number
             /\ result.extracted_content = JsonList(<<>>)
                   => m_printed' = "No more venues found. Ending crawl."]_vars

\* C10's case: an empty page met after records were accumulated.
C10_Witness ==
    /\ m_pc = "save"
    /\ m_printed = "No more venues found. Ending crawl."
    /\ Len(all_venues) >= 2
    /\ m_page_number = 2

(***************************************************************************)
(* Properties of is_complete_product (SpecValidator)                       *)
(***************************************************************************)
KeySet(keys) == { keys[x] : x \in DOMAIN keys }

\* C3: is_complete_product(R, K) is true exactly when every key of K is in R
\* with a value that is not "", None or False; R is left as it was; and the
\* answer is the same for every R2 that agrees with R on the keys of K,
\* whatever other keys R2 has or lacks.
C3_CompleteIff ==
    v_pc = "done" =>
        /\ v_result =
              (\A k \in KeySet(v_keys) :
                  /\ k \in DOMAIN v_product
                  /\ v_product[k] \notin {Str(""), PyNone, PyFalse})
        /\ \A R2 \in ValidatorProducts :
              (\A k \in KeySet(v_keys) :
                  /\ (k \in DOMAIN R2) = (k \in DOMAIN v_product)
                  /\ k \in DOMAIN R2 => R2[k] = v_product[k])
              => is_complete_product(R2, v_keys) = v_result

\* C3's case: a product with every required key, one of them falsy, and a
\* key that is not required.
C3_Witness ==
    /\ v_pc = "done"
    /\ v_result = FALSE
    /\ Len(v_keys) = 2
    /\ KeySet(v_keys) \subseteq DOMAIN v_product
    /\ DOMAIN v_product \ KeySet(v_keys) # {}

LoopLeft == m_pc \in {"save", "done"} \/ (m_pc = "raised" /\ m_printed # "")

\* C11: in main(), when the fetch of the current page fails (result.success
\* is False) the loop is left at once through the Error break: no request
\* is added for that page or a later one, all_venues and page_number stay
\* as they were, and nothing that follows requests a page or appends a
\* record.
C11_FetchErrorStops ==
    [][/\ \A result \in VenueResults :
              (MainFetchReturns(result) /\ ~result.success)
                  => /\ m_pc' = "save"
                     /\ m_printed' = "Error"
                     /\ all_venues' = all_venues
                     /\ m_page_number' = m_page_number
                     /\ m_requests' = m_requests
       /\ (m_pc \in {"save", "done", "raised"} /\ m_printed = "Error")
              => /\ m_requests' = m_requests
                 /\ all_venues' = all_venues
                 /\ m_page_number' = m_page_number
                 /\ m_pc' \in {"done", "raised"}]_vars

\* Page 2's fetch failed (with content left in the result) after page 1 gave
\* a venue; the loop was left and the venue saved.
C11_Witness ==
    /\ m_pc = "done"
    /\ m_printed = "Error"
    /\ ~m_result.success
    /\ ContentTruthy(m_result.extracted_content)
    /\ Len(m_requests) = 2
    /\ Len(all_venues) = 1
    /\ saves = <<all_venues>>

\* The rows of all_venues have been written to the file once, in full; with
\* no row at all, writing nothing counts as well.
Persisted ==
    \/ saves = <<all_venues>>
    \/ all_venues = <<>> /\ saves = <<>>

\* C12: nothing is written while the loop of main() runs, at most one write
\* is made, and once main() has ended after leaving its loop the accumulated
\* all_venues has been persisted, zero records being a valid outcome.
C12_PersistedAtEnd ==
    /\ m_pc \in {"fetch", "sleep", "save"} => saves = <<>>
    /\ Len(saves) <= 1
    /\ (m_pc \in {"done", "raised"} /\ m_printed # "") => m_pc = "done" /\ Persisted

(***************************************************************************)
(* fetch_and_process_page: what the caller can tell from the return value  *)
(***************************************************************************)
\* What fetch_and_process_page returns for the candidate list data when the
\* page has no marker and the call starts with the current ledger.
ReturnValueFor(data) ==
    LET r == process_products(data, 1, required_keys, seen_names, <<>>)
    IN  [products |-> r.products, stop |-> FALSE]

\* The candidate lists with at least one candidate and no complete one.
NoneCompleteLists ==
    { d \in SeqUpTo(ProductUniverse, 1) :
          /\ d # <<>>
          /\ \A i \in DOMAIN d :
                 ~is_complete_product(drop_false_error(d[i]), required_keys) }

\* The call that has just returned accepted nothing because every complete
\* candidate of its page was a duplicate.
AllCompleteWereDuplicates ==
    /\ f_pc = "returned"
    /\ ret.products = <<>>
    /\ \E i \in DOMAIN extracted_data : CompleteAt(i)
    /\ \A i \in DOMAIN extracted_data :
           CompleteAt(i) => extracted_data[i]["name"] \in seen_names

\* C13: the value returned for a page whose complete candidates were all
\* duplicates differs from the value returned for a page with candidates of
\* which none is complete.
C13_EmptyKindsDistinct ==
    AllCompleteWereDuplicates
        => \A d \in NoneCompleteLists : ReturnValueFor(d) # ret

\* The extractor output of an extraction failure: nothing, or text that is
\* not JSON.
ExtractionFailed(result) ==
    result.success /\ result.extracted_content \in {NoContent, Malformed}

\* C14: in main(), a page whose extractor output is empty or malformed is
\* handled as a page with zero candidates: the loop is left through a break
\* with all_venues and page_number as they were, never by an exception.
C14_ExtractionFailureIsEmptyPage ==
    [][\A result \in VenueResults :
           (MainFetchReturns(result) /\ ExtractionFailed(result))
               => /\ m_pc' = "save"
                  /\ all_venues' = all_venues
                  /\ m_page_number' = m_page_number]_vars

(***************************************************************************)
(* The ledger seen_names                                                   *)
(***************************************************************************)
\* C15: no step of a call of fetch_and_process_page, whatever the call's
\* outcome (marker, failed fetch, empty extraction, records, exception),
\* removes a name from seen_names.
C15_LedgerMonotone == [][seen_names \subseteq seen_names']_vars

\* A second call whose extraction gave nothing (failed fetch, no content or
\* an empty list) has returned, the two names of the first call still in the
\* ledger.
C15_Witness ==
    /\ calls = 2
    /\ f_pc = "returned"
    /\ Cardinality(seen_names) = 2
    /\ ret.products = <<>>
    /\ Len(fetches) = 2
    /\ candidates = <<>>

\* The names a candidate of the model can carry.
NameValues == { p["name"] : p \in { q \in ProductUniverse : "name" \in DOMAIN q } }

\* C16: adding a name to the ledger twice gives the ledger, and the
\* is_duplicate_product answers, of adding it once; and processing the
\* candidates of the page just processed a second time, with the ledger as
\* the first processing left it, accepts no record and leaves the ledger
\* as it is.
C16_InsertIdempotent ==
    /\ \A n \in NameValues :
           LET once == seen_names_add(seen_names, n)
               twice == seen_names_add(once, n)
           IN  /\ twice = once
               /\ \A m \in NameValues :
                      is_duplicate_product(m, twice) = is_duplicate_product(m, once)
    /\ (f_pc \in {"returned", "raised"} /\ candidates # <<>>)
           => LET again == process_products(candidates, 1, required_keys,
                                            seen_names, <<>>)
              IN  /\ again.products = <<>>
                  /\ again.seen = seen_names

\* The page [A, B with 'error': False] was processed by the first call, which
\* accepted both records, and again by the second call, which accepted none.
C16_Witness ==
    /\ calls = 2
    /\ f_pc = "returned"
    /\ candidates = <<ProdA, ProdBFalseError>>
    /\ returned_all = <<ProdA, ProdB>>
    /\ ret.products = <<>>
    /\ seen_names = {ProdA["name"], ProdB["name"]}

(***************************************************************************)
(* main(): the page sequence                                               *)
(***************************************************************************)
\* base_url + "?page=" + n written out for the page numbers of the model,
\* which have one digit.
ExpectedUrl(n) ==
    <<MainBaseUrl, "?page=",
      CASE n = 1 -> "1" [] n = 2 -> "2" [] n = 3 -> "3" [] n = 4 -> "4"
        [] n = 5 -> "5" [] n = 6 -> "6" [] n = 7 -> "7" [] n = 8 -> "8"
        [] n = 9 -> "9">>

\* C17: main() starts at page 1 and page_number only ever grows by one; the
\* i-th url requested is base_url + "?page=" + i, so the pages requested
\* are 1, 2, 3, ... with no gap or repeat; and a page is requested only
\* after the page before it has been processed in full, its venues appended
\* to all_venues.
C17_PagesInOrder ==
    /\ [](/\ m_page_number >= 1
          /\ \A i \in DOMAIN m_requests : m_requests[i] = ExpectedUrl(i)
          /\ m_pc = "fetch" => Len(m_requests) = m_page_number
          /\ m_pc = "sleep" => Len(m_requests) = m_page_number - 1)
    /\ [][/\ m_page_number' \in {m_page_number, m_page_number + 1}
          /\ m_requests' # m_requests
                 => /\ m_pc = "sleep"
                    /\ m_requests' = Append(m_requests, ExpectedUrl(m_page_number))
                    /\ all_venues' = all_venues
          /\ \A result \in VenueResults :
                 (MainFetchReturns(result) /\ m_pc' = "sleep")
                     => /\ m_page_number' = m_page_number + 1
                        /\ all_venues' =
                               all_venues
                               \o complete_venues(json_loads(result.extracted_content).value, 1)]_vars

\* Pages 1, 2 and 3 have been requested, pages 1 and 2 having given venues.
C17_Witness ==
    /\ m_pc = "fetch"
    /\ m_page_number = 3
    /\ Len(m_requests) = 3
    /\ Len(all_venues) >= 2

(***************************************************************************)
(* main(): halting                                                         *)
(***************************************************************************)
\* The model stops requesting pages here; main() itself would go on.
AtPageBound == m_pc = "sleep" /\ m_page_number > MaxMainPages

\* Once the loop of main() has been left no page is requested, page_number
\* does not change, no venue is appended and the loop is not entered again.
C18_TerminalFinal ==
    [][LoopLeft => /\ m_requests' = m_requests
                   /\ m_page_number' = m_page_number
                   /\ all_venues' = all_venues
                   /\ LoopLeft']_vars

\* C18: main() comes to rest only in a terminal state of its loop, that is
\* after the loop was left through one of its breaks (every fetch returns,
\* and a page with a failed fetch or zero candidates leaves the loop), and
\* a terminal state is final.
C18_HaltsInTerminalState ==
    /\ []((~ENABLED NextMain /\ ~AtPageBound) => LoopLeft)
    /\ C18_TerminalFinal

(***************************************************************************)
(* fetch_and_process_page: the 'error' field                               *)
(***************************************************************************)
\* The candidate carries 'error' with the value False.
HasFalseError(c) == "error" \in DOMAIN c /\ c["error"] = PyFalse

\* C19: when a call returns, each candidate of its page is as the extractor
\* gave it, but for the key 'error' removed where its value was False (a
\* candidate without 'error', or with another 'error' value, is untouched);
\* the records accepted are the candidates so changed that are complete and
\* not duplicates, whether or not they carried 'error'; and no record ever
\* accepted carries 'error' False.
C19_FalseErrorDropped ==
    /\ (f_pc = "returned" /\ candidates # <<>>)
           => /\ Len(extracted_data) = Len(candidates)
              /\ \A i \in DOMAIN candidates :
                     LET c == candidates[i]
                         x == extracted_data[i]
                     IN  /\ DOMAIN x = IF HasFalseError(c)
                                       THEN DOMAIN c \ {"error"}
                                       ELSE DOMAIN c
                         /\ \A k \in DOMAIN x : x[k] = c[k]
              /\ \A i \in DOMAIN extracted_data :
                     (CompleteAt(i) /\ ~DuplicateAt(i))
                         => \E k \in DOMAIN ret.products :
                                ret.products[k] = extracted_data[i]
              /\ \A k \in DOMAIN ret.products :
                     \E i \in DOMAIN extracted_data :
                         /\ CompleteAt(i) /\ ~DuplicateAt(i)
                         /\ ret.products[k] = extracted_data[i]
    /\ \A k \in DOMAIN returned_all : ~HasFalseError(returned_all[k])

\* The candidate of name B that carries 'error': True.
ProdBTrueError ==
    DictOf(<<<<"name", Str("B")>>, <<"price", Str("q")>>, <<"error", PyTrue>>>>)

\* A page with B carrying 'error': False, B carrying 'error': True and A: the
\* first was accepted without the key, the second kept its key and was
\* skipped as a duplicate, the third was accepted as it was.
C19_Witness ==
    /\ f_pc = "returned"
    /\ calls = 1
    /\ candidates = <<ProdBFalseError, ProdBTrueError, ProdA>>
    /\ extracted_data = <<ProdB, ProdBTrueError, ProdA>>
    /\ ret.products = <<ProdB, ProdA>>

\* C20: between the steps of the calls that share a ledger which started
\* empty, seen_names is exactly the set of the names of the records the
\* calls have returned so far.
C20_LedgerIsAcceptedNames ==
    f_pc \in {"idle", "returned", "raised"}
        => seen_names = { returned_all[k]["name"] : k \in DOMAIN returned_all }

=============================================================================
